---- MODULE Spec2Model ----
(***************************************************************************)
(* Model of the SDL game-controller mapping tokenizer of gilrs             *)
(* (src/mapping/parser.rs).  A text is a sequence of one-byte strings; a   *)
(* byte offset o of the source is index o + 1 of the sequence.             *)
(***************************************************************************)
EXTENDS Integers, Sequences, FiniteSets, TLC

(***************************************************************************)
(* Bytes and text slices                                                   *)
(***************************************************************************)

\* The printable ASCII bytes in code order (code 32 is Ascii[1]); the
\* quotes and the backslash are named.
Ascii ==
  <<" ","!","QUOTE","#","$","%","&","APOSTROPHE","(",")","*","+",",","-",".","/",
    "0","1","2","3","4","5","6","7","8","9",":",";","<","=",">","?",
    "@","A","B","C","D","E","F","G","H","I","J","K","L","M","N","O",
    "P","Q","R","S","T","U","V","W","X","Y","Z","[","BACKSLASH","]","^","_",
    "BACKTICK","a","b","c","d","e","f","g","h","i","j","k","l","m","n","o",
    "p","q","r","s","t","u","v","w","x","y","z","{","|","}","~">>

\* The byte value of a one-byte string, as the ordering of str compares it.
Ord(c) == 31 + (CHOOSE i \in 1..Len(Ascii) : Ascii[i] = c)

\* &s[a..b] with byte offsets a <= b <= s.len().
Slice(s, a, b) == SubSeq(s, a + 1, b)

\* s.get(a..b): the slice when the range lies inside s, otherwise nothing.
Get(s, a, b) ==
  IF a <= b /\ b <= Len(s)
    THEN [some |-> TRUE, val |-> Slice(s, a, b)]
    ELSE [some |-> FALSE, val |-> <<>>]

\* s[from..].find(c): the offset in s of the first byte c at or after from,
\* or -1 when there is none.
Find(s, c, from) ==
  IF \E i \in from..(Len(s) - 1) : s[i + 1] = c
    THEN CHOOSE i \in from..(Len(s) - 1) :
           /\ s[i + 1] = c
           /\ \A j \in from..(i - 1) : s[j + 1] # c
    ELSE -1

\* Ordering of two texts as Ord for &str: -1 less, 0 equal, 1 greater.
RECURSIVE Cmp(_, _)
Cmp(a, b) ==
  IF a = <<>> /\ b = <<>> THEN 0
  ELSE IF a = <<>> THEN -1
  ELSE IF b = <<>> THEN 1
  ELSE IF Ord(Head(a)) < Ord(Head(b)) THEN -1
  ELSE IF Ord(Head(a)) > Ord(Head(b)) THEN 1
  ELSE Cmp(Tail(a), Tail(b))

\* pair.split(":") collected: the pieces between the separators, in order.
\* An empty text splits into one empty piece.
RECURSIVE Split(_, _)
Split(s, c) ==
  LET i == Find(s, c, 0)
  IN  IF i = -1 THEN <<s>>
      ELSE <<Slice(s, 0, i)>> \o Split(Slice(s, i + 1, Len(s)), c)

(***************************************************************************)
(* Symbol tables                                                           *)
(***************************************************************************)

BUTTONS_SDL ==
  << <<"a">>, <<"b">>, <<"b","a","c","k">>, <<"c">>, <<"d","p","d","o","w","n">>, <<"d","p","l","e","f","t">>, <<"d","p","r","i","g","h","t">>,
     <<"d","p","u","p">>, <<"g","u","i","d","e">>, <<"l","e","f","t","s","h","o","u","l","d","e","r">>, <<"l","e","f","t","s","t","i","c","k">>, <<"l","e","f","t","t","r","i","g","g","e","r">>,
     <<"r","i","g","h","t","s","h","o","u","l","d","e","r">>, <<"r","i","g","h","t","s","t","i","c","k">>, <<"r","i","g","h","t","t","r","i","g","g","e","r">>, <<"s","t","a","r","t">>,
     <<"x">>, <<"y">>, <<"z">> >>

BUTTONS ==
  << "South", "East", "Select", "C", "DPadDown", "DPadLeft",
     "DPadRight", "DPadUp", "Mode", "LeftTrigger", "LeftThumb",
     "LeftTrigger2", "RightTrigger", "RightThumb", "RightTrigger2",
     "Start", "West", "North", "Z" >>

AXES_SDL ==
  << <<"l","e","f","t","s","h","o","u","l","d","e","r">>, <<"l","e","f","t","t","r","i","g","g","e","r">>, <<"l","e","f","t","x">>, <<"l","e","f","t","y">>, <<"l","e","f","t","z">>,
     <<"r","i","g","h","t","s","h","o","u","l","d","e","r">>, <<"r","i","g","h","t","t","r","i","g","g","e","r">>, <<"r","i","g","h","t","x">>, <<"r","i","g","h","t","y">>,
     <<"r","i","g","h","t","z">> >>

AXES ==
  << "LeftTrigger", "LeftTrigger2", "LeftStickX", "LeftStickY", "LeftZ",
     "RightTrigger", "RightTrigger2", "RightStickX", "RightStickY",
     "RightZ" >>

\* Faulty variant of BinarySearchIn: the upper half is searched up to its
\* last entry but one.
RECURSIVE BinarySearchIn_ShortUpper(_, _, _, _)
BinarySearchIn_ShortUpper(tbl, key, lo, hi) ==
  IF lo >= hi THEN [found |-> FALSE, idx |-> lo]
  ELSE LET mid == lo + ((hi - lo) \div 2)
           c   == Cmp(tbl[mid + 1], key)
       IN  IF c = 0 THEN [found |-> TRUE, idx |-> mid]
           ELSE IF c < 0 THEN BinarySearchIn_ShortUpper(tbl, key, mid + 1, hi - 1)
           ELSE BinarySearchIn_ShortUpper(tbl, key, lo, mid)

\* slice::binary_search over the offsets lo..hi-1 of a name table: the
\* offset of a hit, or nothing.
RECURSIVE BinarySearchIn(_, _, _, _)
BinarySearchIn(tbl, key, lo, hi) ==
  IF lo >= hi THEN [found |-> FALSE, idx |-> lo]
  ELSE LET mid == lo + ((hi - lo) \div 2)
           c   == Cmp(tbl[mid + 1], key)
       IN  IF c = 0 THEN [found |-> TRUE, idx |-> mid]
           ELSE IF c < 0 THEN BinarySearchIn(tbl, key, mid + 1, hi)
           ELSE BinarySearchIn(tbl, key, lo, mid)

binary_search(tbl, key) == BinarySearchIn(tbl, key, 0, Len(tbl))

(***************************************************************************)
(* Numbers and identifiers                                                 *)
(***************************************************************************)

Digits == <<"0","1","2","3","4","5","6","7","8","9">>
IsDigit(c) == \E i \in 1..10 : Digits[i] = c
DigitVal(c) == (CHOOSE i \in 1..10 : Digits[i] = c) - 1

\* u16::MAX
U16Max == 65535

\* Faulty variant of AccumulateU16: the arithmetic wraps at the width of
\* u16 where it should fail.
RECURSIVE AccumulateU16_Wraps(_, _)
AccumulateU16_Wraps(s, acc) ==
  IF s = <<>> THEN acc
  ELSE IF ~IsDigit(Head(s)) THEN -1
  ELSE AccumulateU16_Wraps(Tail(s), (acc * 10 + DigitVal(Head(s))) % (U16Max + 1))

\* The digits of a number accumulated left to right with checked
\* arithmetic: -1 on a byte that is no digit or on overflow of u16.
RECURSIVE AccumulateU16(_, _)
AccumulateU16(s, acc) ==
  IF s = <<>> THEN acc
  ELSE IF ~IsDigit(Head(s)) THEN -1
  ELSE LET n == acc * 10 + DigitVal(Head(s))
       IN  IF n > U16Max THEN -1 ELSE AccumulateU16(Tail(s), n)

\* str::parse::<u16>(): an optional leading + and then at least one
\* decimal digit, the value at most u16::MAX.
ParseU16(s) ==
  LET digits == IF s # <<>> /\ Head(s) = "+" THEN Tail(s) ELSE s
      n      == AccumulateU16(digits, 0)
  IN  IF digits = <<>> \/ n = -1
        THEN [ok |-> FALSE, val |-> 0]
        ELSE [ok |-> TRUE, val |-> n]

HexDigits == <<"0","1","2","3","4","5","6","7","8","9",
               "a","b","c","d","e","f","A","B","C","D","E","F">>
IsHex(c) == \E i \in 1..Len(HexDigits) : HexDigits[i] = c
HexVal(c) ==
  LET i == CHOOSE j \in 1..Len(HexDigits) : HexDigits[j] = c
  IN  IF i <= 16 THEN i - 1 ELSE i - 7

UrnPrefix == <<"u","r","n",":","u","u","i","d",":">>

\* Uuid::parse_str: 32 hexadecimal digits, or the hyphenated 8-4-4-4-12
\* form, the latter optionally behind "urn:uuid:".  The identifier is the
\* sequence of the 32 digit values.
UuidParseStr(s) ==
  LET urn  == Len(s) = 45 /\ SubSeq(s, 1, 9) = UrnPrefix
      body == IF urn THEN SubSeq(s, 10, Len(s)) ELSE s
      hyph == {9, 14, 19, 24}
      simple == Len(body) = 32 /\ \A i \in 1..32 : IsHex(body[i])
      hyphenated ==
        /\ Len(body) = 36
        /\ \A i \in 1..36 : IF i \in hyph THEN body[i] = "-" ELSE IsHex(body[i])
      hex  == SelectSeq(body, LAMBDA c : c # "-")
  IN  IF simple \/ hyphenated
        THEN [ok |-> TRUE, val |-> [i \in 1..32 |-> HexVal(hex[i])]]
        ELSE [ok |-> FALSE, val |-> <<>>]

(***************************************************************************)
(* Tokens and errors                                                       *)
(***************************************************************************)

\* Option::None of next_token
None == [tag |-> "None"]

\* Error::new(kind, position)
Error(kind, position) == [tag |-> "Err", kind |-> kind, position |-> position]

TokenUuid(uuid) == [tag |-> "Uuid", uuid |-> uuid]
TokenPlatform(text) == [tag |-> "Platform", text |-> text]
TokenName(text) == [tag |-> "Name", text |-> text]
TokenAxisMapping(from, to, input, output, inverted) ==
  [tag |-> "AxisMapping", from |-> from, to |-> to, input |-> input,
   output |-> output, inverted |-> inverted]
TokenButtonMapping(from, to) ==
  [tag |-> "ButtonMapping", from |-> from, to |-> to]
TokenHatMapping(hat, direction, to) ==
  [tag |-> "HatMapping", hat |-> hat, direction |-> direction, to |-> to]

\* What one call leaves behind: its result and the parser's new fields.
Outcome(res, pos, state) == [res |-> res, pos |-> pos, state |-> state]

(***************************************************************************)
(* Parser                                                                  *)
(***************************************************************************)

next_comma_or_end(data, pos) ==
  LET i == Find(data, ",", pos)
  IN  IF i = -1 THEN Len(data) ELSE i

\* Faulty variant of parse_uuid: an invalid identifier field is stepped
\* over like a field of the later stages.
parse_uuid_SkipsField(data, pos) ==
  LET next_comma == next_comma_or_end(data, pos)
      uuid       == UuidParseStr(Slice(data, pos, next_comma))
  IN  IF ~uuid.ok
        THEN Outcome(Error("InvalidGuid", pos), next_comma + 1, "Invalid")
      ELSE IF next_comma = Len(data)
        THEN Outcome(Error("UnexpectedEnd", pos), pos, "Invalid")
      ELSE Outcome(TokenUuid(uuid.val), next_comma + 1, "Name")

\* Faulty variant of parse_uuid: an invalid identifier field leaves the
\* stage as it is.
parse_uuid_NoLatch(data, pos) ==
  LET next_comma == next_comma_or_end(data, pos)
      uuid       == UuidParseStr(Slice(data, pos, next_comma))
  IN  IF ~uuid.ok
        THEN Outcome(Error("InvalidGuid", pos), pos, "Uuid")
      ELSE IF next_comma = Len(data)
        THEN Outcome(Error("UnexpectedEnd", pos), pos, "Invalid")
      ELSE Outcome(TokenUuid(uuid.val), next_comma + 1, "Name")

\* Faulty variant of parse_uuid: the end of the line is not told from a
\* comma.
parse_uuid_NoEndCheck(data, pos) ==
  LET next_comma == next_comma_or_end(data, pos)
      uuid       == UuidParseStr(Slice(data, pos, next_comma))
  IN  IF ~uuid.ok
        THEN Outcome(Error("InvalidGuid", pos), pos, "Invalid")
      ELSE Outcome(TokenUuid(uuid.val), next_comma + 1, "Name")

parse_uuid(data, pos) ==
  LET next_comma == next_comma_or_end(data, pos)
      uuid       == UuidParseStr(Slice(data, pos, next_comma))
  IN  IF ~uuid.ok
        THEN Outcome(Error("InvalidGuid", pos), pos, "Invalid")
      ELSE IF next_comma = Len(data)
        THEN Outcome(Error("UnexpectedEnd", pos), pos, "Invalid")
      ELSE Outcome(TokenUuid(uuid.val), next_comma + 1, "Name")

\* Faulty variant of parse_name: the stage is left as it is.
parse_name_StaysName(data, pos) ==
  LET next_comma == next_comma_or_end(data, pos)
  IN  Outcome(TokenName(Slice(data, pos, next_comma)), next_comma + 1, "Name")

\* Faulty variant of parse_name: a name that ends the line is treated as
\* the identifier that ends the line is.
parse_name_EndIsFatal(data, pos) ==
  LET next_comma == next_comma_or_end(data, pos)
  IN  IF next_comma = Len(data)
        THEN Outcome(Error("UnexpectedEnd", pos), pos, "Invalid")
        ELSE Outcome(TokenName(Slice(data, pos, next_comma)), next_comma + 1,
                     "KeyVal")

parse_name(data, pos) ==
  LET next_comma == next_comma_or_end(data, pos)
  IN  Outcome(TokenName(Slice(data, pos, next_comma)), next_comma + 1, "KeyVal")

\* The last byte of a non-empty value is "~".
EndsWithTilde(value) ==
  Get(value, Len(value) - 1, Len(value)) = [some |-> TRUE, val |-> <<"~">>]

\* The numeric text of an axis value whose "a" ends at offset start.
AxisDigits(value, start) ==
  IF EndsWithTilde(value)
    THEN Slice(value, start, Len(value) - 1)
    ELSE Slice(value, start, Len(value))

\* Faulty variant of ValueShape: a sign makes the value an axis value
\* without a look at the byte behind it.
ValueShape_SignOnly(value) ==
  LET first == Get(value, 0, 1)
  IN  IF first.some /\ first.val = <<"+">>
        THEN [role |-> "axis", input |-> "UpperHalf",
              inverted |-> EndsWithTilde(value), from |-> AxisDigits(value, 2)]
      ELSE IF first.some /\ first.val = <<"-">>
        THEN [role |-> "axis", input |-> "LowerHalf",
              inverted |-> EndsWithTilde(value), from |-> AxisDigits(value, 2)]
      ELSE IF first.some /\ first.val = <<"a">>
        THEN [role |-> "axis", input |-> "Full",
              inverted |-> EndsWithTilde(value), from |-> AxisDigits(value, 1)]
      ELSE IF first.some /\ first.val = <<"b">>
        THEN [role |-> "button", input |-> "Full", inverted |-> FALSE,
              from |-> Slice(value, 1, Len(value))]
      ELSE IF first.some /\ first.val = <<"h">>
        THEN [role |-> "hat", input |-> "Full", inverted |-> FALSE,
              from |-> <<>>]
      ELSE [role |-> "invalid", input |-> "Full", inverted |-> FALSE,
            from |-> <<>>]

\* The match on the first bytes of the value: the role of the value, the
\* input range, the inversion flag and the text of the source id.
ValueShape(value) ==
  LET first  == Get(value, 0, 1)
      second == Get(value, 1, 2)
      isA    == second = [some |-> TRUE, val |-> <<"a">>]
  IN  IF first.some /\ first.val = <<"+">> /\ isA
        THEN [role |-> "axis", input |-> "UpperHalf",
              inverted |-> EndsWithTilde(value), from |-> AxisDigits(value, 2)]
      ELSE IF first.some /\ first.val = <<"-">> /\ isA
        THEN [role |-> "axis", input |-> "LowerHalf",
              inverted |-> EndsWithTilde(value), from |-> AxisDigits(value, 2)]
      ELSE IF first.some /\ first.val = <<"a">>
        THEN [role |-> "axis", input |-> "Full",
              inverted |-> EndsWithTilde(value), from |-> AxisDigits(value, 1)]
      ELSE IF first.some /\ first.val = <<"b">>
        THEN [role |-> "button", input |-> "Full", inverted |-> FALSE,
              from |-> Slice(value, 1, Len(value))]
      ELSE IF first.some /\ first.val = <<"h">>
        THEN [role |-> "hat", input |-> "Full", inverted |-> FALSE,
              from |-> <<>>]
      ELSE [role |-> "invalid", input |-> "Full", inverted |-> FALSE,
            from |-> <<>>]

\* Position reported for a hat index that does not parse.
HatIndexErrorPos(pos, dot_idx) == pos + 1

\* Position reported for a hat direction that does not parse.
HatDirectionErrorPos(pos, dot_idx) == pos + dot_idx + 1

\* Faulty variant of ParseHat: index and direction change places.
ParseHat_Swapped(key, value, pos) ==
  LET dot_idx   == Find(value, ".", 0)
      hat       == ParseU16(Slice(value, 1, dot_idx))
      dirText   == Get(value, dot_idx + 1, Len(value))
      direction == IF dirText.some THEN ParseU16(dirText.val)
                                   ELSE [ok |-> FALSE, val |-> 0]
      found     == binary_search(BUTTONS_SDL, key)
  IN  IF dot_idx = -1 THEN Error("InvalidValue", pos)
      ELSE IF ~hat.ok THEN Error("InvalidValue", HatIndexErrorPos(pos, dot_idx))
      ELSE IF ~direction.ok
        THEN Error("InvalidValue", HatDirectionErrorPos(pos, dot_idx))
      ELSE IF ~found.found THEN Error("UnknownButton", pos)
      ELSE TokenHatMapping(direction.val, hat.val, BUTTONS[found.idx + 1])

\* The "h" arm: h<idx>.<dir> resolved against the button table.
ParseHat(key, value, pos) ==
  LET dot_idx   == Find(value, ".", 0)
      hat       == ParseU16(Slice(value, 1, dot_idx))
      dirText   == Get(value, dot_idx + 1, Len(value))
      direction == IF dirText.some THEN ParseU16(dirText.val)
                                   ELSE [ok |-> FALSE, val |-> 0]
      found     == binary_search(BUTTONS_SDL, key)
  IN  IF dot_idx = -1 THEN Error("InvalidValue", pos)
      ELSE IF ~hat.ok THEN Error("InvalidValue", HatIndexErrorPos(pos, dot_idx))
      ELSE IF ~direction.ok
        THEN Error("InvalidValue", HatDirectionErrorPos(pos, dot_idx))
      ELSE IF ~found.found THEN Error("UnknownButton", pos)
      ELSE TokenHatMapping(hat.val, direction.val, BUTTONS[found.idx + 1])

\* The match on the first byte of the key of an axis mapping: the output
\* range and the key without its sign.
KeyRange(key) ==
  LET first == Get(key, 0, 1)
  IN  IF first.some /\ first.val = <<"+">>
        THEN [output |-> "UpperHalf", key |-> Slice(key, 1, Len(key))]
      ELSE IF first.some /\ first.val = <<"-">>
        THEN [output |-> "LowerHalf", key |-> Slice(key, 1, Len(key))]
      ELSE [output |-> "Full", key |-> key]

\* Faulty variant of ResolveAxis: the range of the value is taken for the
\* output and the range of the key for the input.
ResolveAxis_SwappedRanges(key, from, shape, pos) ==
  LET kr    == KeyRange(key)
      found == binary_search(AXES_SDL, kr.key)
  IN  IF ~found.found THEN Error("UnknownAxis", pos)
      ELSE TokenAxisMapping(from, AXES[found.idx + 1], kr.output,
                            shape.input, shape.inverted)

\* The "if is_axis" arm.
ResolveAxis(key, from, shape, pos) ==
  LET kr    == KeyRange(key)
      found == binary_search(AXES_SDL, kr.key)
  IN  IF ~found.found THEN Error("UnknownAxis", pos)
      ELSE TokenAxisMapping(from, AXES[found.idx + 1], shape.input,
                            kr.output, shape.inverted)

\* The else arm of "if is_axis".
ResolveButton(key, from, pos) ==
  LET found == binary_search(BUTTONS_SDL, key)
  IN  IF ~found.found THEN Error("UnknownButton", pos)
      ELSE TokenButtonMapping(from, BUTTONS[found.idx + 1])

\* Faulty variant of DecodeMapping: a key of the button table makes the
\* mapping a button mapping whatever the value.
DecodeMapping_TableByKey(key, value, pos) ==
  LET shape == ValueShape(value)
      from  == ParseU16(shape.from)
  IN  IF shape.role = "hat" THEN ParseHat(key, value, pos)
      ELSE IF shape.role = "invalid" THEN Error("InvalidValue", pos)
      ELSE IF ~from.ok THEN Error("InvalidValue", pos)
      ELSE IF shape.role = "axis" /\ ~binary_search(BUTTONS_SDL, key).found
        THEN ResolveAxis(key, from.val, shape, pos)
      ELSE ResolveButton(key, from.val, pos)

\* Faulty variant of DecodeMapping: the key is looked up before the
\* numbers of the value are parsed.
DecodeMapping_KeyFirst(key, value, pos) ==
  LET shape == ValueShape(value)
      from  == ParseU16(shape.from)
  IN  IF shape.role = "invalid" THEN Error("InvalidValue", pos)
      ELSE IF shape.role = "axis" /\ ~binary_search(AXES_SDL, KeyRange(key).key).found
        THEN Error("UnknownAxis", pos)
      ELSE IF shape.role # "axis" /\ ~binary_search(BUTTONS_SDL, key).found
        THEN Error("UnknownButton", pos)
      ELSE IF shape.role = "hat" THEN ParseHat(key, value, pos)
      ELSE IF ~from.ok THEN Error("InvalidValue", pos)
      ELSE IF shape.role = "axis" THEN ResolveAxis(key, from.val, shape, pos)
      ELSE ResolveButton(key, from.val, pos)

\* Decoding of a key and a value that is no platform tag.
DecodeMapping(key, value, pos) ==
  LET shape == ValueShape(value)
      from  == ParseU16(shape.from)
  IN  IF shape.role = "hat" THEN ParseHat(key, value, pos)
      ELSE IF shape.role = "invalid" THEN Error("InvalidValue", pos)
      ELSE IF ~from.ok THEN Error("InvalidValue", pos)
      ELSE IF shape.role = "axis" THEN ResolveAxis(key, from.val, shape, pos)
      ELSE ResolveButton(key, from.val, pos)

PlatformKey == <<"p","l","a","t","f","o","r","m">>

\* Faulty variant of ParsePair: the value is decoded before the key is
\* compared with "platform".
ParsePair_DecodesFirst(pair, pos) ==
  LET split == Split(pair, ":")
      shape == ValueShape(split[2])
  IN  IF Len(split) < 2 THEN Error("InvalidKeyValPair", pos)
      ELSE IF Len(split) > 2 THEN Error("InvalidKeyValPair", pos)
      ELSE IF shape.role = "invalid" THEN Error("InvalidValue", pos)
      ELSE IF split[1] = PlatformKey THEN TokenPlatform(split[2])
      ELSE DecodeMapping(split[1], split[2], pos)

\* Faulty variant of ParsePair: what follows a second colon is ignored.
ParsePair_IgnoresExtra(pair, pos) ==
  LET split == Split(pair, ":")
  IN  IF Len(split) < 2 THEN Error("InvalidKeyValPair", pos)
      ELSE IF split[1] = PlatformKey THEN TokenPlatform(split[2])
      ELSE DecodeMapping(split[1], split[2], pos)

\* The result of parse_key_val for the field text pair that starts at pos.
ParsePair(pair, pos) ==
  LET split == Split(pair, ":")
  IN  IF Len(split) < 2 THEN Error("InvalidKeyValPair", pos)
      ELSE IF Len(split) > 2 THEN Error("InvalidKeyValPair", pos)
      ELSE IF split[1] = PlatformKey THEN TokenPlatform(split[2])
      ELSE DecodeMapping(split[1], split[2], pos)

\* Faulty variant of parse_key_val: the cursor moves on only behind a
\* field that gave a token.
parse_key_val_StaysOnError(data, pos) ==
  LET next_comma == next_comma_or_end(data, pos)
      pair       == Slice(data, pos, next_comma)
      res        == ParsePair(pair, pos)
  IN  Outcome(res, IF res.tag = "Err" THEN pos ELSE next_comma + 1, "KeyVal")

\* Faulty variant of parse_key_val: a field that is no pair is fatal, as
\* a bad identifier is.
parse_key_val_Latches(data, pos) ==
  LET next_comma == next_comma_or_end(data, pos)
      pair       == Slice(data, pos, next_comma)
      res        == ParsePair(pair, pos)
  IN  Outcome(res, next_comma + 1,
              IF res.tag = "Err" /\ res.kind = "InvalidKeyValPair"
                THEN "Invalid" ELSE "KeyVal")

parse_key_val(data, pos) ==
  LET next_comma == next_comma_or_end(data, pos)
      pair       == Slice(data, pos, next_comma)
  IN  Outcome(ParsePair(pair, pos), next_comma + 1, "KeyVal")

\* The Invalid arm of next_token.
invalid_state(data, pos) ==
  Outcome(Error("InvalidParserState", pos), pos, "Invalid")

\* Faulty variant of AtEnd: the cursor on the end of the line is not yet
\* the end.
AtEnd_Strict(data, pos) == pos > Len(data)

\* The end-of-input test of next_token.
AtEnd(data, pos) == pos >= Len(data)

\* next_token on a parser with the fields data, pos, state.
next_token(data, pos, state) ==
  IF AtEnd(data, pos) THEN Outcome(None, pos, state)
  ELSE IF state = "Uuid" THEN parse_uuid(data, pos)
  ELSE IF state = "Name" THEN parse_name(data, pos)
  ELSE IF state = "KeyVal" THEN parse_key_val(data, pos)
  ELSE invalid_state(data, pos)

\* A range start..end taken of a text of len bytes.
Range3(start, end, len) == [start |-> start, end |-> end, len |-> len]

\* The ranges that the decoding takes of a value: value.len() - 1 and the
\* numeric slice of an axis value, the numeric slice of a button value,
\* index and direction of a hat value with a dot.
ValueRanges(value) ==
  LET shape   == ValueShape(value)
      len     == Len(value)
      signed  == Get(value, 0, 1).val \in { <<"+">>, <<"-">> }
      start   == IF signed THEN 2 ELSE 1
      dot_idx == Find(value, ".", 0)
  IN  IF shape.role = "axis"
        THEN { Range3(len - 1, len, len),
               Range3(start, IF EndsWithTilde(value) THEN len - 1 ELSE len, len) }
      ELSE IF shape.role = "button" THEN { Range3(1, len, len) }
      ELSE IF shape.role = "hat" /\ dot_idx # -1
        THEN { Range3(1, dot_idx, len), Range3(dot_idx + 1, len, len) }
      ELSE {}

\* The range that the axis arm takes of a key with a sign.
KeyRanges(key, value) ==
  LET shape == ValueShape(value)
  IN  IF /\ shape.role = "axis"
         /\ ParseU16(shape.from).ok
         /\ Get(key, 0, 1).val \in { <<"+">>, <<"-">> }
        THEN { Range3(1, Len(key), Len(key)) }
        ELSE {}

\* The ranges that parse_key_val takes of the field text pair.
PairRanges(pair) ==
  LET split == Split(pair, ":")
  IN  IF Len(split) # 2 \/ split[1] = PlatformKey THEN {}
      ELSE ValueRanges(split[2]) \cup KeyRanges(split[1], split[2])

\* Every range that next_token takes of the line, of the field, of the
\* key and of the value on a parser with the fields data, pos, state.
RangesTaken(data, pos, state) ==
  IF AtEnd(data, pos) \/ state = "Invalid" THEN {}
  ELSE LET next_comma == next_comma_or_end(data, pos)
           line == { Range3(pos, Len(data), Len(data)),
                     Range3(pos, next_comma, Len(data)) }
       IN  IF state = "KeyVal"
             THEN line \cup PairRanges(Slice(data, pos, next_comma))
             ELSE line

(***************************************************************************)
(* Mapping lines given to Parser::new                                      *)
(***************************************************************************)

\* Largest number of key:value fields after the name in the lines that
\* vary the whole line.
MaxFields == 2

\* Calls made on one parser: enough to pass every field of the longest
\* line and to ask again after the end.
MaxCalls == MaxFields + 4

GoodGuid == <<"0","3","0","0","0","0","0","0","d","e","2","8","0","0","0","0","f","f","1","1","0","0","0","0","0","1","0","0","0","0","0","0">>

GuidPool ==
  { GoodGuid,
    <<"0","3","0","0","0","0","0","0","5","E","0","4","0","0","0","0","A","1","0","2","0","0","0","0","0","0","0","1","0","0","0","0">>,
    <<"6","b","a","7","b","8","1","0","-","9","d","a","d","-","1","1","d","1","-","8","0","b","4","-","0","0","c","0","4","f","d","4","3","0","c","8">>,
    <<"u","r","n",":","u","u","i","d",":","6","b","a","7","b","8","1","0","-","9","d","a","d","-","1","1","d","1","-","8","0","b","4","-","0","0","c","0","4","f","d","4","3","0","c","8">>,
    <<>>,
    <<"x","i","n","p","u","t">>,
    <<"0","3","0","0","0","0","0","0","d","e","2","8","0","0","0","0","f","f","1","1","0","0","0","0","0","1","0","0","0","0","0">> }

PadName == <<"P","a","d">>

NamePool == { PadName, <<>>, <<"a",":","b","1">> }

\* Fields that surround the field under study.
ContextFields ==
  { <<"a",":","b","1">>, <<"l","e","f","t","x",":","a","0">>, <<"p","l","a","t","f","o","r","m",":","L","i","n","u","x">>, <<>>, <<"n","o","c","o","l","o","n">>,
    <<"a",":","b",":","c">>, <<"p","l","a","t","f","o","r","m",":","a",":","b">> }

SignPool == { <<>>, <<"+">>, <<"-">> }

TildePool == { <<>>, <<"~">> }

NumberPool ==
  { <<"0">>, <<"1">>, <<"3">>, <<"5">>, <<"6","5","5","3","5">>, <<"6","5","5","3","6">>, <<"7","0","0","0","0">>, <<>>,
    <<"x">>, <<"+","3">>, <<"0","0","7">>, <<"-","1">> }

HatNumberPool == { <<"0">>, <<"2">>, <<"6","5","5","3","5">> }

Range(f) == { f[i] : i \in DOMAIN f }

KeyPool ==
  { s \o k : s \in SignPool, k \in Range(AXES_SDL) }
    \cup Range(BUTTONS_SDL)
    \cup { PlatformKey, <<"f","o","o","b","a","r">>, <<>>, <<"+">>, <<"+","a">>, <<"l","e","f","t">>,
           <<"l","e","f","t","x","x">>, <<"L","e","f","t","x">> }

ValuePool ==
  { s \o <<"a">> \o n \o t : s \in SignPool, n \in NumberPool, t \in TildePool }
    \cup { <<"b">> \o n : n \in NumberPool }
    \cup { <<"h">> \o i \o <<".">> \o d : i \in HatNumberPool, d \in HatNumberPool }
    \cup { <<"h","1",".","8">>, <<"h">>, <<"h",".">>, <<"h","0">>,
           <<"h","0",".">>, <<"h",".","2">>, <<"h","x",".","2">>, <<"h","0",".","x">>, <<"h","6","5","5","3","6",".","0">>, <<"h","0",".","6","5","5","3","6">>,
           <<"h","0",".","2",".","3">>, <<"h","+","0",".","+","2">>, <<"h","-","1",".","2">> }
    \cup { <<>>, <<"q","1">>, <<"+">>, <<"-">>, <<"~">>, <<"+","b","1">>, <<"3">>, <<"A","3">>,
           <<"L","i","n","u","x">>, <<"M","a","c"," ","O","S"," ","X">> }

\* Every pairing of a key with a value.
MainFields == { k \o <<":">> \o v : k \in KeyPool, v \in ValuePool }

RECURSIVE JoinFields(_)
JoinFields(fields) ==
  IF Len(fields) = 0 THEN <<>>
  ELSE IF Len(fields) = 1 THEN fields[1]
  ELSE fields[1] \o <<",">> \o JoinFields(Tail(fields))

SeqsUpTo(S, n) == UNION { [1..k -> S] : k \in 0..n }

\* Nothing, or one trailing comma.
Trails == { <<>>, <<",">> }

\* Lines that vary the identifier, the name and the sequence of fields.
DeepLines ==
  { JoinFields(<<g>> \o rest) \o t :
      g \in GuidPool,
      rest \in {<<>>} \cup { <<n>> \o kv : n \in NamePool,
                                          kv \in SeqsUpTo(ContextFields, MaxFields) },
      t \in Trails }

\* What stands before and after the field under study.
Surroundings ==
  { [pre |-> <<>>, post |-> <<>>, trail |-> <<>>],
    [pre |-> <<>>, post |-> <<>>, trail |-> <<",">>],
    [pre |-> << <<"n","o","c","o","l","o","n">> >>, post |-> << <<"a",":","b","1">> >>, trail |-> <<>>] }

\* Lines with a valid identifier and a name that vary one field.
WideLines ==
  { JoinFields(<<GoodGuid, PadName>> \o s.pre \o <<f>> \o s.post) \o s.trail :
      f \in MainFields, s \in Surroundings }

\* The names of both tables.
TableNames == Range(BUTTONS_SDL) \cup Range(AXES_SDL)

\* Keys near the names of the tables: the names, their proper prefixes,
\* the names with one byte more, with a sign, and in capitals.
ProbeKeys ==
  TableNames
    \cup UNION { { SubSeq(n, 1, j) : j \in 0..(Len(n) - 1) } : n \in TableNames }
    \cup { n \o e : n \in TableNames, e \in { <<"x">>, <<"a">>, <<" ">> } }
    \cup { s \o n : n \in TableNames, s \in { <<"+">>, <<"-">>, <<"+", "+">> } }
    \cup { <<"B">>, <<"L","E","F","T","X">>, <<"z","z">>, <<"~">> }

\* Values of the three roles with which the probe keys are looked up.
ProbeValues == { <<"b","1">>, <<"a","1">>, <<"h","0",".","2">> }

\* Lines with a valid identifier and a name that vary the key of one
\* field.
TableLines ==
  { JoinFields(<<GoodGuid, PadName, k \o <<":">> \o v>>) :
      k \in ProbeKeys, v \in ProbeValues }

Lines == DeepLines \cup WideLines \cup TableLines

(***************************************************************************)
(* A caller that pulls tokens from one parser                              *)
(***************************************************************************)

VARIABLES
  data,    \* Parser::data, the borrowed line
  pos,     \* Parser::pos, the cursor (a byte offset)
  state,   \* Parser::state
  trace    \* the calls made so far: the fields before each call, its result

vars == <<data, pos, state, trace>>

\* Parser::new(mapping)
Init ==
  /\ data \in Lines
  /\ pos = 0
  /\ state = "Uuid"
  /\ trace = <<>>

\* One call of next_token by the caller.
Call ==
  LET o == next_token(data, pos, state)
  IN  /\ Len(trace) < MaxCalls
      /\ pos' = o.pos
      /\ state' = o.state
      /\ trace' = Append(trace, [pos |-> pos, state |-> state, res |-> o.res])
      /\ UNCHANGED data

\* The call finds the line consumed.
EndOfInput == AtEnd(data, pos) /\ Call

\* The call takes the identifier field.
ParseUuid == ~AtEnd(data, pos) /\ state = "Uuid" /\ Call

\* The call takes the name field.
ParseName == ~AtEnd(data, pos) /\ state = "Name" /\ Call

\* The call takes one key:value field.
ParseKeyVal == ~AtEnd(data, pos) /\ state = "KeyVal" /\ Call

\* The call finds the parser in the state left by a fatal error.
InvalidState == ~AtEnd(data, pos) /\ state = "Invalid" /\ Call

Next ==
  \/ EndOfInput
  \/ ParseUuid
  \/ ParseName
  \/ ParseKeyVal
  \/ InvalidState

Spec == Init /\ [][Next]_vars

(***************************************************************************)
(* Vocabulary of the properties                                            *)
(***************************************************************************)

Calls == DOMAIN trace

\* The cursor and the stage that call i left behind.
PostPos(i) == IF i < Len(trace) THEN trace[i + 1].pos ELSE pos
PostState(i) == IF i < Len(trace) THEN trace[i + 1].state ELSE state

IsError(r, kind) == r.tag = "Err" /\ r.kind = kind

\* The text before the first comma, or the whole line.
IdentifierField == Split(data, ",")[1]

HasComma == \E i \in DOMAIN data : data[i] = ","

\* The comma-delimited field of the line that starts at offset p.
FieldAt(p) == Split(Slice(data, p, Len(data)), ",")[1]

ColonCount(f) == Cardinality({ i \in DOMAIN f : f[i] = ":" })

\* C1: once the stage is Invalid, every call returns the error
\* InvalidParserState at the unchanged cursor, never a token and never
\* None, and leaves cursor and stage as they were.
C1_FatalIsTerminal ==
  \A i \in Calls :
    trace[i].state = "Invalid" =>
      /\ trace[i].res = Error("InvalidParserState", trace[i].pos)
      /\ PostPos(i) = trace[i].pos
      /\ PostState(i) = "Invalid"
      /\ \A j \in Calls : j > i => trace[j].res = trace[i].res

\* A parser that was asked three more times after its fatal error, with
\* input remaining behind the identifier field.
C1_Witness ==
  /\ Len(trace) >= 4
  /\ trace[2].state = "Invalid"
  /\ trace[4].state = "Invalid"
  /\ HasComma

\* C2 as stated: an identifier field that is no GUID text, the empty one
\* included, gives InvalidGuid and then InvalidParserState for ever; a
\* valid one moves the stage from Uuid to Name.
C2_AsStated ==
  Len(trace) >= 1 =>
    IF UuidParseStr(IdentifierField).ok
      THEN trace[1].state = "Uuid" /\ PostState(1) = "Name"
      ELSE /\ trace[1].res = Error("InvalidGuid", 0)
           /\ \A j \in Calls : j > 1 => IsError(trace[j].res, "InvalidParserState")

\* C2, amended: on a line that is not empty an identifier field that is no
\* GUID text gives InvalidGuid and then InvalidParserState for ever; a
\* valid identifier field that a comma follows moves the stage from Uuid
\* to Name.
C2_GuidDecides ==
  (Len(trace) >= 1 /\ data # <<>>) =>
    IF UuidParseStr(IdentifierField).ok
      THEN HasComma => (trace[1].state = "Uuid" /\ PostState(1) = "Name")
      ELSE /\ trace[1].res = Error("InvalidGuid", 0)
           /\ \A j \in Calls : j > 1 => IsError(trace[j].res, "InvalidParserState")

\* A line that starts with a comma: its identifier field is the empty
\* text, and two calls have followed the first.
C2_Witness ==
  /\ Len(trace) >= 3
  /\ data # <<>>
  /\ IdentifierField = <<>>
  /\ IsError(trace[1].res, "InvalidGuid")

\* C3: a line that is one valid GUID and nothing else gives UnexpectedEnd,
\* the Invalid stage and InvalidParserState ever after; a valid GUID that
\* a comma follows gives the Uuid token, the cursor just behind that comma
\* and the Name stage.
C3_GuidAlone ==
  (Len(trace) >= 1 /\ UuidParseStr(IdentifierField).ok) =>
    IF HasComma
      THEN /\ trace[1].res = TokenUuid(UuidParseStr(IdentifierField).val)
           /\ PostPos(1) = Len(IdentifierField) + 1
           /\ data[PostPos(1)] = ","
           /\ PostState(1) = "Name"
      ELSE /\ trace[1].res = Error("UnexpectedEnd", 0)
           /\ PostState(1) = "Invalid"
           /\ \A j \in Calls : j > 1 => IsError(trace[j].res, "InvalidParserState")

\* The line of one valid GUID, asked three times.
C3_Witness ==
  /\ Len(trace) >= 3
  /\ ~HasComma
  /\ IsError(trace[1].res, "UnexpectedEnd")
  /\ IsError(trace[3].res, "InvalidParserState")

\* The results of the first n calls on a fresh parser that is in stage s
\* at cursor p of the line.
RECURSIVE ResultsFrom(_, _, _, _)
ResultsFrom(line, p, s, n) ==
  IF n = 0 THEN <<>>
  ELSE LET o == next_token(line, p, s)
       IN  <<o.res>> \o ResultsFrom(line, o.pos, o.state, n - 1)

\* A result as it reads when its field lies d bytes further right.
Shifted(r, d) == IF r.tag = "Err" THEN Error(r.kind, r.position + d) ELSE r

WellFormedField == <<"a",":","b","1">>

\* Call i was given, in the KeyVal stage, a field without exactly one colon.
MalformedAt(i) ==
  /\ trace[i].state = "KeyVal"
  /\ trace[i].pos < Len(data)
  /\ ColonCount(FieldAt(trace[i].pos)) # 1

\* The line with the field of call i replaced by a well-formed one.
Repaired(i) ==
  LET p == trace[i].pos
  IN  Slice(data, 0, p) \o WellFormedField
        \o Slice(data, p + Len(FieldAt(p)), Len(data))

C5_AsStated ==
  \A i \in Calls :
    IF trace[i].pos >= Len(data)
      THEN trace[i].res = None
      ELSE /\ trace[i].res # None
           /\ PostPos(i) # trace[i].pos \/ PostState(i) # trace[i].state

\* C5, amended: None when the cursor is at or behind the end of the line;
\* otherwise one result, and outside the Invalid stage a cursor or a stage
\* that the call has changed; in the Invalid stage the call changes
\* neither.
C5_OneResultPerCall ==
  \A i \in Calls :
    IF trace[i].pos >= Len(data)
      THEN trace[i].res = None
      ELSE /\ trace[i].res # None
           /\ IF trace[i].state = "Invalid"
                THEN PostPos(i) = trace[i].pos /\ PostState(i) = trace[i].state
                ELSE PostPos(i) # trace[i].pos \/ PostState(i) # trace[i].state

\* A parser that has given a token in each stage, was then asked with the
\* cursor exactly on the end of the line, and was asked once more.
C5_Witness ==
  /\ Len(trace) >= 5
  /\ trace[3].state = "KeyVal" /\ trace[3].res # None
  /\ trace[4].pos = Len(data) /\ trace[4].res = None
  /\ trace[5].res = None

\* The offset at which the comma-delimited field holding offset p begins.
FieldStart(p) ==
  CHOOSE s \in 0..p :
    /\ s = 0 \/ data[s] = ","
    /\ \A t \in (s + 1)..p : data[t] # ","

PositionedKinds ==
  {"InvalidGuid", "UnexpectedEnd", "InvalidKeyValPair", "InvalidValue",
   "UnknownAxis", "UnknownButton"}

\* C6 as stated: every error of these kinds carries the offset at which
\* the field it is about begins.
C6_AsStated ==
  \A i \in Calls :
    (trace[i].res.tag = "Err" /\ trace[i].res.kind \in PositionedKinds) =>
      trace[i].res.position = FieldStart(trace[i].pos)

\* The fields of the line, split at every comma.
AllFields == Split(data, ",")

\* The offset at which field k of the line begins.
RECURSIVE FieldStartK(_)
FieldStartK(k) ==
  IF k = 1 THEN 0 ELSE FieldStartK(k - 1) + Len(AllFields[k - 1]) + 1

\* The line has a valid identifier and a name, and the caller has been
\* told that the input has ended.
HeaderValidAndEnded ==
  /\ Len(AllFields) >= 2
  /\ UuidParseStr(AllFields[1]).ok
  /\ Len(trace) >= 1
  /\ trace[Len(trace)].res = None

\* The number of calls before the first None that gave InvalidKeyValPair
\* for the field that begins at offset s.
Answers(s) ==
  Cardinality({ i \in Calls :
                  /\ trace[i].res = Error("InvalidKeyValPair", s)
                  /\ \A j \in 1..i : trace[j].res # None })

\* C7 as stated: once the end of the input is reported, every field behind
\* the name without exactly one colon, the empty ones and the empty last
\* one behind a trailing comma included, has been answered by one
\* InvalidKeyValPair.
C7_AsStated ==
  HeaderValidAndEnded =>
    \A k \in 3..Len(AllFields) :
      ColonCount(AllFields[k]) # 1 => Answers(FieldStartK(k)) = 1

\* C7, amended: once the end of the input is reported, every field behind
\* the name without exactly one colon that begins before the end of the
\* line, the empty ones included, has been answered by one
\* InvalidKeyValPair; the empty last field behind a trailing comma begins
\* at the end of the line and is answered by nothing.
C7_NoFieldDropped ==
  HeaderValidAndEnded =>
    \A k \in 3..Len(AllFields) :
      ColonCount(AllFields[k]) # 1 =>
        Answers(FieldStartK(k)) = IF FieldStartK(k) < Len(data) THEN 1 ELSE 0

\* A line with an empty field in the middle, a field of two colons and a
\* trailing comma, read to its end.
C7_Witness ==
  /\ HeaderValidAndEnded
  /\ data[Len(data)] = ","
  /\ \E k \in 3..(Len(AllFields) - 1) : AllFields[k] = <<>>
  /\ \E k \in 3..(Len(AllFields) - 1) : ColonCount(AllFields[k]) >= 2

\* Decimal texts of source ids, with the numbers they denote.
Decimals ==
  { [text |-> <<"0">>, val |-> 0], [text |-> <<"2">>, val |-> 2],
    [text |-> <<"3">>, val |-> 3], [text |-> <<"5">>, val |-> 5],
    [text |-> <<"6","5","5","3","5">>, val |-> 65535] }

\* The range that a sign, or no sign, stands for.
RangeOfSign(s) ==
  IF s = <<"+">> THEN "UpperHalf" ELSE IF s = <<"-">> THEN "LowerHalf" ELSE "Full"

\* Every field s k : p a n [~] over the axis table, with the token the
\* claim gives it.
AxisCases ==
  { [field |-> s \o AXES_SDL[k] \o <<":">> \o p \o <<"a">> \o n.text \o t,
     token |-> TokenAxisMapping(n.val, AXES[k], RangeOfSign(p), RangeOfSign(s),
                                t = <<"~">>)] :
      s \in SignPool, k \in DOMAIN AXES_SDL, p \in SignPool, n \in Decimals,
      t \in TildePool }

AxisFields == { c.field : c \in AxisCases }

AxisExpected[f \in AxisFields] == (CHOOSE c \in AxisCases : c.field = f).token

\* Call i was given a field in the KeyVal stage.
KeyValCall(i) == trace[i].state = "KeyVal" /\ trace[i].pos < Len(data)

\* C8: a field s k : p a n [~] with k an axis name decodes to the
\* AxisMapping of source n and the axis paired with k, the input range
\* named by p, the output range named by s, inverted exactly with the ~;
\* leftx:a3 and +leftx:-a3~ decode as the specification tabulates them.
C8_AxisDecoding ==
  \A i \in Calls :
    KeyValCall(i) =>
      LET f == FieldAt(trace[i].pos)
      IN  /\ f \in AxisFields => trace[i].res = AxisExpected[f]
          /\ f = <<"l","e","f","t","x",":","a","3">> =>
               trace[i].res = TokenAxisMapping(3, "LeftStickX", "Full", "Full", FALSE)
          /\ f = <<"+","l","e","f","t","x",":","-","a","3","~">> =>
               trace[i].res = TokenAxisMapping(3, "LeftStickX", "LowerHalf",
                                               "UpperHalf", TRUE)

\* The field +leftx:-a3~ has been decoded.
C8_Witness ==
  \E i \in Calls :
    /\ KeyValCall(i)
    /\ FieldAt(trace[i].pos) = <<"+","l","e","f","t","x",":","-","a","3","~">>
    /\ trace[i].res.tag = "AxisMapping"

\* Every field k:b<n> and k:h<i>.<d> over the button table, with the
\* token the claim gives it.
ButtonCases ==
  { [field |-> BUTTONS_SDL[k] \o <<":","b">> \o n.text,
     token |-> TokenButtonMapping(n.val, BUTTONS[k])] :
      k \in DOMAIN BUTTONS_SDL, n \in Decimals }
  \cup
  { [field |-> BUTTONS_SDL[k] \o <<":","h">> \o h.text \o <<".">> \o d.text,
     token |-> TokenHatMapping(h.val, d.val, BUTTONS[k])] :
      k \in DOMAIN BUTTONS_SDL, h \in Decimals, d \in Decimals }

ButtonFields == { c.field : c \in ButtonCases }

ButtonExpected[f \in ButtonFields] == (CHOOSE c \in ButtonCases : c.field = f).token

\* A text that str::parse reads as an unsigned integer whatever the width:
\* decimal digits, at least one, behind at most one +.
IsUnsignedText(t) ==
  LET d == IF t # <<>> /\ Head(t) = "+" THEN Tail(t) ELSE t
  IN  d # <<>> /\ \A j \in DOMAIN d : IsDigit(d[j])

\* The value of a field key:value is a hat value that lacks its dot, its
\* index or its direction.
BadHatField(f) ==
  /\ ColonCount(f) = 1
  /\ Split(f, ":")[1] # PlatformKey
  /\ LET v == Split(f, ":")[2]
     IN  /\ v # <<>> /\ Head(v) = "h"
         /\ \/ \A j \in DOMAIN v : v[j] # "."
            \/ LET parts == Split(v, ".")
               IN  \/ ~IsUnsignedText(Tail(parts[1]))
                   \/ Len(parts) # 2
                   \/ ~IsUnsignedText(parts[2])

\* C9: a field k:b<n> with k a button name decodes to the ButtonMapping of
\* source n and the button paired with k; k:h<i>.<d> decodes to the
\* HatMapping of index i, direction d as written, and that button; a hat
\* value without a dot, or with an index or direction that is no unsigned
\* integer, gives InvalidValue; a:b5 and a:h0.2 decode as the
\* specification tabulates them.
C9_ButtonAndHatDecoding ==
  \A i \in Calls :
    KeyValCall(i) =>
      LET f == FieldAt(trace[i].pos)
      IN  /\ f \in ButtonFields => trace[i].res = ButtonExpected[f]
          /\ f = <<"a",":","b","5">> => trace[i].res = TokenButtonMapping(5, "South")
          /\ f = <<"a",":","h","0",".","2">> => trace[i].res = TokenHatMapping(0, 2, "South")
          /\ BadHatField(f) => IsError(trace[i].res, "InvalidValue")

\* The field a:h0.2 has been decoded.
C9_Witness ==
  \E i \in Calls :
    /\ KeyValCall(i)
    /\ FieldAt(trace[i].pos) = <<"a",":","h","0",".","2">>
    /\ trace[i].res.tag = "HatMapping"

PlatformPrefix == PlatformKey \o <<":">>

\* C10: in the KeyVal stage a field platform:<value> with one colon gives
\* the token Platform with the value text as written, whatever the value.
C10_PlatformVerbatim ==
  \A i \in Calls :
    KeyValCall(i) =>
      LET f == FieldAt(trace[i].pos)
      IN  ( /\ ColonCount(f) = 1
            /\ Len(f) >= Len(PlatformPrefix)
            /\ SubSeq(f, 1, Len(PlatformPrefix)) = PlatformPrefix ) =>
          trace[i].res = TokenPlatform(SubSeq(f, Len(PlatformPrefix) + 1, Len(f)))

\* The field platform:q1, whose value has no shape of a controller value,
\* has been answered.
C10_Witness ==
  \E i \in Calls :
    /\ KeyValCall(i)
    /\ FieldAt(trace[i].pos) = <<"p","l","a","t","f","o","r","m",":","q","1">>
    /\ trace[i].res.tag = "Platform"

\* The line begins with a valid identifier that a comma follows.
IdentifierAccepted == UuidParseStr(IdentifierField).ok /\ HasComma

\* C11 as stated: the text between the comma behind the GUID and the next
\* comma or the end of the line, the empty text included, is returned as
\* Name by the second call, the stage becomes KeyVal, and when no comma
\* remains every later call returns None.
C11_AsStated ==
  (IdentifierAccepted /\ Len(trace) >= 2) =>
    /\ trace[2].state = "Name"
    /\ trace[2].res = TokenName(AllFields[2])
    /\ PostState(2) = "KeyVal"
    /\ Len(AllFields) = 2 => \A j \in Calls : j > 2 => trace[j].res = None

\* C11, amended: when the name field begins before the end of the line the
\* second call returns its text, the empty text between two commas
\* included, as Name, the stage becomes KeyVal, and when no comma remains
\* every later call returns None; when the line ends with the comma behind
\* the GUID the second call and every later one return None, no Name is
\* returned and the stage stays Name.
C11_NameNeverFails ==
  (IdentifierAccepted /\ Len(trace) >= 2) =>
    /\ trace[2].state = "Name"
    /\ IF FieldStartK(2) < Len(data)
         THEN /\ trace[2].res = TokenName(AllFields[2])
              /\ PostState(2) = "KeyVal"
              /\ Len(AllFields) = 2 => \A j \in Calls : j > 2 => trace[j].res = None
         ELSE /\ \A j \in Calls : j >= 2 => trace[j].res = None
              /\ state = "Name"

\* A line of a GUID and a name that holds a colon, with no comma behind
\* the name, asked twice more after the name.
C11_Witness ==
  /\ IdentifierAccepted
  /\ Len(AllFields) = 2
  /\ Len(trace) >= 4
  /\ trace[2].res = TokenName(<<"a",":","b","1">>)
  /\ trace[4].res = None

\* The text is a name of the table.
Listed(tbl, k) == \E j \in DOMAIN tbl : tbl[j] = k

\* A key without its one leading sign.
Unsigned(k) == IF k # <<>> /\ Head(k) \in {"+", "-"} THEN Tail(k) ELSE k

\* Well-formed values of the two roles.
ButtonValues ==
  { <<"b">> \o n.text : n \in Decimals }
    \cup { <<"h">> \o h.text \o <<".">> \o d.text : h \in Decimals, d \in Decimals }

AxisValues ==
  { p \o <<"a">> \o n.text \o t : p \in SignPool, n \in Decimals, t \in TildePool }

\* C12: the table that resolves the key is chosen by the value alone: with
\* a well-formed button or hat value a key outside the button table gives
\* UnknownButton; with a well-formed axis value a key that, without its
\* one leading sign, is outside the axis table gives UnknownAxis, also when
\* it is a button name; lefttrigger resolves to the axis with an axis value
\* and to the button with a button value; foobar:b1 gives UnknownButton.
C12_TableByValueRole ==
  \A i \in Calls :
    (KeyValCall(i) /\ ColonCount(FieldAt(trace[i].pos)) = 1) =>
      LET f == FieldAt(trace[i].pos)
          k == Split(f, ":")[1]
          v == Split(f, ":")[2]
          r == trace[i].res
      IN  k # PlatformKey =>
            /\ (v \in ButtonValues /\ ~Listed(BUTTONS_SDL, k)) =>
                 IsError(r, "UnknownButton")
            /\ (v \in ButtonValues /\ Listed(BUTTONS_SDL, k)) =>
                 r.tag \in {"ButtonMapping", "HatMapping"}
            /\ (v \in AxisValues /\ ~Listed(AXES_SDL, Unsigned(k))) =>
                 IsError(r, "UnknownAxis")
            /\ (v \in AxisValues /\ Listed(AXES_SDL, Unsigned(k))) =>
                 r.tag = "AxisMapping"
            /\ f = <<"a",":","a","3">> => IsError(r, "UnknownAxis")
            /\ f = <<"l","e","f","t","t","r","i","g","g","e","r",":","a","3">> =>
                 r = TokenAxisMapping(3, "LeftTrigger2", "Full", "Full", FALSE)
            /\ f = <<"l","e","f","t","t","r","i","g","g","e","r",":","b","3">> => r = TokenButtonMapping(3, "LeftTrigger2")
            /\ f = <<"f","o","o","b","a","r",":","b","1">> => r = Error("UnknownButton", trace[i].pos)

\* The button name a has met an axis value and was refused as an axis.
C12_Witness ==
  \E i \in Calls :
    /\ KeyValCall(i)
    /\ FieldAt(trace[i].pos) = <<"a",":","a","3">>
    /\ IsError(trace[i].res, "UnknownAxis")

\* A text without the one ~ that may end it.
WithoutTilde(t) ==
  IF t # <<>> /\ t[Len(t)] = "~" THEN SubSeq(t, 1, Len(t) - 1) ELSE t

\* The numeric texts that a value holds: the source id of an axis or
\* button value, the index and the direction of a hat value with a dot.
NumberTexts(v) ==
  IF Len(v) >= 2 /\ v[1] \in {"+", "-"} /\ v[2] = "a"
    THEN { WithoutTilde(SubSeq(v, 3, Len(v))) }
  ELSE IF Len(v) >= 1 /\ v[1] = "a" THEN { WithoutTilde(SubSeq(v, 2, Len(v))) }
  ELSE IF Len(v) >= 1 /\ v[1] = "b" THEN { SubSeq(v, 2, Len(v)) }
  ELSE IF Len(v) >= 1 /\ v[1] = "h" /\ \E j \in DOMAIN v : v[j] = "."
    THEN LET dot == CHOOSE j \in DOMAIN v :
                      v[j] = "." /\ \A m \in 1..(j - 1) : v[m] # "."
         IN  { SubSeq(v, 2, dot - 1), SubSeq(v, dot + 1, Len(v)) }
  ELSE {}

\* The number that a text of decimal digits denotes, of whatever size.
RECURSIVE DecimalValue(_)
DecimalValue(t) ==
  IF t = <<>> THEN 0
  ELSE 10 * DecimalValue(SubSeq(t, 1, Len(t) - 1)) + DigitVal(t[Len(t)])

\* The number of a text that is an unsigned integer.
UnsignedValue(t) == DecimalValue(IF Head(t) = "+" THEN Tail(t) ELSE t)

\* The text is an unsigned integer of at most 65535.
FitsU16(t) == IsUnsignedText(t) /\ UnsignedValue(t) <= 65535

\* The numbers that a mapping token carries.
NumbersOf(r) ==
  IF r.tag = "HatMapping" THEN {r.hat, r.direction}
  ELSE IF r.tag \in {"AxisMapping", "ButtonMapping"} THEN {r.from}
  ELSE {}

\* Values whose digit string is empty.
EmptyNumberValues == { <<"a">>, <<"b">>, <<"a","~">>, <<"+","a">>, <<"h",".","2">>, <<"h","0",".">> }

\* C13: a source id, hat index or hat direction is accepted only as an
\* unsigned integer of 0..65535: 65535 comes back unchanged; 65536, larger
\* numbers, an empty digit string and a negative number give InvalidValue;
\* the numbers of a mapping are the numbers written, never their residue
\* modulo 2^16.
C13_NumbersAreU16 ==
  \A i \in Calls :
    (KeyValCall(i) /\ ColonCount(FieldAt(trace[i].pos)) = 1) =>
      LET f  == FieldAt(trace[i].pos)
          k  == Split(f, ":")[1]
          v  == Split(f, ":")[2]
          r  == trace[i].res
          ts == NumberTexts(v)
      IN  k # PlatformKey =>
            /\ (\E t \in ts : ~FitsU16(t)) => IsError(r, "InvalidValue")
            /\ NumbersOf(r) # {} =>
                 /\ \A t \in ts : FitsU16(t)
                 /\ NumbersOf(r) = { UnsignedValue(t) : t \in ts }
            /\ v \in EmptyNumberValues => IsError(r, "InvalidValue")
            /\ f = <<"l","e","f","t","x",":","a","6","5","5","3","5">> => (r.tag = "AxisMapping" /\ r.from = 65535)
            /\ f = <<"a",":","b","6","5","5","3","5">> => r = TokenButtonMapping(65535, "South")
            /\ f = <<"a",":","h","6","5","5","3","5",".","6","5","5","3","5">> => r = TokenHatMapping(65535, 65535, "South")
            /\ f \in { <<"l","e","f","t","x",":","a","6","5","5","3","6">>, <<"l","e","f","t","x",":","a","7","0","0","0","0">>, <<"a",":","b","6","5","5","3","6">>,
                       <<"a",":","h","6","5","5","3","6",".","0">>, <<"a",":","h","0",".","6","5","5","3","6">>, <<"l","e","f","t","x",":","a","-","1">>,
                       <<"a",":","b","-","1">>, <<"a",":","h","-","1",".","2">> } => IsError(r, "InvalidValue")

\* The value a65536, one more than the largest source id, has been refused
\* for a key of the axis table.
C13_Witness ==
  \E i \in Calls :
    /\ KeyValCall(i)
    /\ FieldAt(trace[i].pos) = <<"l","e","f","t","x",":","a","6","5","5","3","6">>
    /\ IsError(trace[i].res, "InvalidValue")

\* Text a comes before text b in the order of their bytes.
Before(a, b) ==
  \E n \in 0..Len(a) :
    /\ n <= Len(b)
    /\ \A j \in 1..n : a[j] = b[j]
    /\ IF n = Len(a) THEN n < Len(b)
       ELSE n < Len(b) /\ Ord(a[n + 1]) < Ord(b[n + 1])

StrictlyAscending(tbl) ==
  \A j \in 1..(Len(tbl) - 1) : Before(tbl[j], tbl[j + 1])

\* What a search of the table for the key has to give: the offset of the
\* entry equal to the key, or no hit.
Resolves(tbl, k) ==
  LET found == binary_search(tbl, k)
  IN  IF Listed(tbl, k)
        THEN found.found /\ tbl[found.idx + 1] = k
        ELSE ~found.found

\* Both name tables are as long as their value tables and strictly
\* ascending.
TablesWellFormed ==
  /\ Len(BUTTONS_SDL) = 19 /\ Len(BUTTONS) = 19
  /\ Len(AXES_SDL) = 10 /\ Len(AXES) = 10
  /\ StrictlyAscending(BUTTONS_SDL)
  /\ StrictlyAscending(AXES_SDL)

\* C14: the 19 button names and the 10 axis names are strictly ascending
\* and as many as their values; the search finds every listed name at its
\* own index and refuses every other key, the empty one, the signed names,
\* the prefixes and the extensions of names included; the parser returns
\* the value at that index.  Stated of the call made last, which every
\* call once is.
C14_TablesSortedAndResolved ==
  /\ TablesWellFormed
  /\ \A i \in Calls :
       (i = Len(trace) /\ KeyValCall(i) /\ ColonCount(FieldAt(trace[i].pos)) = 1) =>
         LET f == FieldAt(trace[i].pos)
             k == Split(f, ":")[1]
             v == Split(f, ":")[2]
             r == trace[i].res
         IN  /\ Resolves(BUTTONS_SDL, k)
             /\ Resolves(AXES_SDL, k)
             /\ (k # PlatformKey /\ v \in ButtonValues) =>
                  IF Listed(BUTTONS_SDL, k)
                    THEN \E j \in DOMAIN BUTTONS_SDL :
                           BUTTONS_SDL[j] = k /\ r.to = BUTTONS[j]
                    ELSE IsError(r, "UnknownButton")
             /\ (k # PlatformKey /\ v \in AxisValues) =>
                  IF Listed(AXES_SDL, Unsigned(k))
                    THEN \E j \in DOMAIN AXES_SDL :
                           AXES_SDL[j] = Unsigned(k) /\ r.to = AXES[j]
                    ELSE IsError(r, "UnknownAxis")

\* A proper prefix of the first name of the axis table has been looked up
\* and refused.
C14_Witness ==
  \E i \in Calls :
    /\ KeyValCall(i)
    /\ FieldAt(trace[i].pos) = <<"l","e","f","t","s","h","o","u","l","d","e",":","a","1">>
    /\ IsError(trace[i].res, "UnknownAxis")

MappingTags == {"AxisMapping", "ButtonMapping", "HatMapping"}

KeyValErrorKinds ==
  {"InvalidKeyValPair", "InvalidValue", "UnknownAxis", "UnknownButton"}

\* The result is an error of the KeyVal stage.
IsKeyValError(r) == r.tag = "Err" /\ r.kind \in KeyValErrorKinds

\* The result is one that moves the cursor on: a token or an error of the
\* KeyVal stage.
Consuming(r) ==
  \/ r.tag \in MappingTags \cup {"Uuid", "Name", "Platform"}
  \/ IsKeyValError(r)

\* C15: no call moves the cursor back; a call that returns the Uuid token,
\* a Name, a mapping, a Platform token or an error of the KeyVal stage
\* moves it forward; a call that returns None, InvalidGuid, UnexpectedEnd
\* or InvalidParserState leaves it where it is.
C15_CursorMonotone ==
  \A i \in Calls :
    /\ PostPos(i) >= trace[i].pos
    /\ Consuming(trace[i].res) => PostPos(i) > trace[i].pos
    /\ ~Consuming(trace[i].res) =>
         /\ PostPos(i) = trace[i].pos
         /\ \/ trace[i].res = None
            \/ IsError(trace[i].res, "InvalidGuid")
            \/ IsError(trace[i].res, "UnexpectedEnd")
            \/ IsError(trace[i].res, "InvalidParserState")

\* A parser that has moved over the identifier, the name, a field that
\* gave an error and a field that gave a mapping, and was then told that
\* the input has ended.
C15_Witness ==
  /\ Len(trace) >= 5
  /\ trace[1].res.tag = "Uuid"
  /\ trace[2].res.tag = "Name"
  /\ IsKeyValError(trace[3].res)
  /\ trace[4].res.tag \in MappingTags
  /\ trace[5].res = None

\* The moves of the stage that the claim allows.
StageMoves ==
  { <<"Uuid", "Name">>, <<"Name", "KeyVal">>, <<"KeyVal", "KeyVal">>,
    <<"Uuid", "Invalid">> }

\* Call i left the stage as it was, or moved it as allowed.
StageMovesForward(i) ==
  \/ PostState(i) = trace[i].state
  \/ <<trace[i].state, PostState(i)>> \in StageMoves

\* Result i is the answer of the KeyVal stage to field i of the line.
AnswersField(i) ==
  /\ \/ trace[i].res.tag \in MappingTags \cup {"Platform"}
     \/ IsKeyValError(trace[i].res)
  /\ i <= Len(AllFields)
  /\ trace[i].pos = FieldStartK(i)

\* C16 as stated: the stage moves Uuid -> Name -> KeyVal -> KeyVal or
\* Uuid -> Invalid and never back; the Uuid token is the first result
\* only, the Name token the second only, and every result from the third
\* on is a mapping, a Platform token or an error of the KeyVal stage, the
\* answer to one field.
C16_AsStated ==
  \A i \in Calls :
    /\ StageMovesForward(i)
    /\ trace[i].res.tag = "Uuid" => i = 1
    /\ trace[i].res.tag = "Name" => i = 2
    /\ (i >= 3 /\ trace[i].res # None) => AnswersField(i)

\* C16, amended: as stated, but on a parser in the Invalid stage every
\* result from the second on, hence from the third on, is
\* InvalidParserState and answers no field.
C16_StageOrder ==
  \A i \in Calls :
    /\ StageMovesForward(i)
    /\ trace[i].res.tag = "Uuid" => i = 1
    /\ trace[i].res.tag = "Name" => i = 2
    /\ (i >= 3 /\ trace[i].res # None) =>
         IF trace[i].state = "Invalid"
           THEN IsError(trace[i].res, "InvalidParserState")
           ELSE AnswersField(i)

\* A parser that went Uuid, Name, KeyVal, KeyVal and gave the Uuid token,
\* the Name, and two answers of the KeyVal stage.
C16_Witness ==
  /\ Len(trace) >= 4
  /\ trace[1].state = "Uuid" /\ trace[1].res.tag = "Uuid"
  /\ trace[2].state = "Name" /\ trace[2].res.tag = "Name"
  /\ trace[3].state = "KeyVal" /\ AnswersField(3)
  /\ trace[4].state = "KeyVal" /\ AnswersField(4)

\* The number of commas of the line.
Commas == Cardinality({ j \in DOMAIN data : data[j] = "," })

\* The result ends the pulling of tokens: the end of the input or one of
\* the two fatal errors.
Ending(r) ==
  \/ r = None
  \/ IsError(r, "InvalidGuid")
  \/ IsError(r, "UnexpectedEnd")

\* The calls that returned a result before any call returned None.
ResultsBeforeEnd ==
  { i \in Calls : \A j \in 1..i : trace[j].res # None }

\* C17: the caller meets None or a fatal error after at most (commas + 1)
\* calls that return a result: on a line without fatal error at most that
\* many calls return a result before None, so that call (commas + 2) at
\* the latest gives None, and a fatal error is the first result; after a
\* None every call gives None and changes nothing.
C17_PullingEnds ==
  /\ Len(trace) >= Commas + 2 => \E i \in 1..(Commas + 2) : Ending(trace[i].res)
  /\ (\A i \in Calls : ~IsError(trace[i].res, "InvalidGuid")
                       /\ ~IsError(trace[i].res, "UnexpectedEnd")) =>
       Cardinality(ResultsBeforeEnd) <= Commas + 1
  /\ \A i \in Calls :
       /\ (IsError(trace[i].res, "InvalidGuid")
             \/ IsError(trace[i].res, "UnexpectedEnd")) => i = 1
       /\ trace[i].res = None =>
            /\ PostPos(i) = trace[i].pos
            /\ PostState(i) = trace[i].state
            /\ \A j \in Calls : j > i => trace[j].res = None

\* A line of three commas, none of them the last byte, on which four calls
\* gave a result and the fifth and the sixth gave None.
C17_Witness ==
  /\ Commas = 3
  /\ data[Len(data)] # ","
  /\ Len(trace) >= 6
  /\ Cardinality(ResultsBeforeEnd) = 4
  /\ trace[5].res = None
  /\ trace[6].res = None

\* C18: the Invalid stage is entered from the Uuid stage only, by the
\* first call; after a first call that returned the Uuid token no call
\* returns InvalidGuid, UnexpectedEnd or InvalidParserState; in the
\* Invalid stage the cursor is 0, and so is the position of every
\* InvalidParserState.
C18_FatalOnlyFromUuid ==
  /\ state = "Invalid" => pos = 0
  /\ \A i \in Calls :
       /\ (PostState(i) = "Invalid" /\ trace[i].state # "Invalid") =>
            (trace[i].state = "Uuid" /\ i = 1)
       /\ trace[i].state = "Invalid" => trace[i].pos = 0
       /\ IsError(trace[i].res, "InvalidParserState") => trace[i].res.position = 0
       /\ (trace[1].res.tag = "Uuid" /\ i > 1) =>
            /\ ~IsError(trace[i].res, "InvalidGuid")
            /\ ~IsError(trace[i].res, "UnexpectedEnd")
            /\ ~IsError(trace[i].res, "InvalidParserState")

\* A parser whose first call returned the Uuid token and which has since
\* answered two malformed fields one after the other.
C18_Witness ==
  /\ Len(trace) >= 4
  /\ trace[1].res.tag = "Uuid"
  /\ IsError(trace[3].res, "InvalidKeyValPair")
  /\ IsError(trace[4].res, "InvalidKeyValPair")
  /\ state = "KeyVal"

\* The range lies inside its text.
InBounds(r) == 0 <= r.start /\ r.start <= r.end /\ r.end <= r.len

\* The cursor stands at the start of the line, one byte behind a comma,
\* or one byte behind the end of the line.
CursorAtFieldStart(p) ==
  \/ p = 0
  \/ p = Len(data) + 1
  \/ p \in 1..Len(data) /\ data[p] = ","

\* C19: the cursor is at most one more than the length of the line and
\* stands at 0, one behind a comma, or one behind the end; every range
\* that a call takes of the line, the field, the key or the value has
\* start <= end <= length, so that no call fails on a range.
C19_CursorAndRangesInBounds ==
  /\ pos <= Len(data) + 1
  /\ CursorAtFieldStart(pos)
  /\ \A r \in RangesTaken(data, pos, state) : InBounds(r)
  /\ \A i \in Calls :
       /\ CursorAtFieldStart(trace[i].pos)
       /\ \A r \in RangesTaken(data, trace[i].pos, trace[i].state) : InBounds(r)

\* The parser stands one behind the end of a line whose last field had the
\* value +a~, the value with the shortest numeric slice.
C19_Witness ==
  /\ pos = Len(data) + 1
  /\ Len(trace) >= 3
  /\ trace[Len(trace)].state = "KeyVal"
  /\ FieldAt(trace[Len(trace)].pos) = <<"l","e","f","t","x",":","+","a","~">>
  /\ Range3(2, 2, 3) \in RangesTaken(data, trace[Len(trace)].pos, "KeyVal")

\* The value has none of the shapes of a controller value, or one of its
\* numbers is no unsigned integer of at most 65535.
InvalidValueText(v) ==
  \/ NumberTexts(v) = {}
  \/ \E t \in NumberTexts(v) : ~FitsU16(t)

\* C20: a field of the KeyVal stage gives one result, found in this order:
\* InvalidKeyValPair unless it has exactly one colon, also under the key
\* platform; then Platform for the key platform; then InvalidValue for a
\* value of no shape or with a bad number, whatever the key; the key is
\* looked up last, so that UnknownButton and UnknownAxis come with valid
\* values only.
C20_ErrorOrder ==
  \A i \in Calls :
    KeyValCall(i) =>
      LET f == FieldAt(trace[i].pos)
          r == trace[i].res
      IN  IF ColonCount(f) # 1 THEN r = Error("InvalidKeyValPair", trace[i].pos)
          ELSE LET k == Split(f, ":")[1]
                   v == Split(f, ":")[2]
               IN  IF k = PlatformKey THEN r = TokenPlatform(v)
                   ELSE /\ InvalidValueText(v) => IsError(r, "InvalidValue")
                        /\ ~InvalidValueText(v) =>
                             \/ r.tag \in MappingTags
                             \/ IsError(r, "UnknownButton")
                             \/ IsError(r, "UnknownAxis")
                        /\ f \in { <<"f","o","o","b","a","r",":","q","1">>, <<"f","o","o","b","a","r",":","b","7","0","0","0","0">>, <<"f","o","o","b","a","r",":","h","0">> } =>
                             IsError(r, "InvalidValue")

\* The field foobar:b70000, unknown key and number too large, has been
\* refused for its value.
C20_Witness ==
  \E i \in Calls :
    /\ KeyValCall(i)
    /\ FieldAt(trace[i].pos) = <<"f","o","o","b","a","r",":","b","7","0","0","0","0">>
    /\ IsError(trace[i].res, "InvalidValue")

====
